---- MODULE Spec2Model ----
(***************************************************************************)
(* A state-machine model of cflearn's DDRLoss (models/ddr/loss.py): one    *)
(* loss module instance, its anneal schedules and its MTL aggregator,      *)
(* driven by a sequence of forward calls.  Tensors are abstracted to their *)
(* presence in the prediction bundle and, where a claim needs it, to their *)
(* shape; anneal weights are integers in tenths.                           *)
(***************************************************************************)
EXTENDS Integers, Sequences, FiniteSets, TLC

VARIABLES
    joint_training,   \* self._joint_training
    use_anneal,       \* self._use_anneal
    enabled,          \* terms whose attribute self._<term>_anneal is an Anneal (not None)
    training,         \* nn.Module.training
    cursor,           \* term -> Anneal._cursor of self._<term>_anneal
    has_last,         \* whether self._last_main_anneal / _last_pressure_anneal exist
    last_main,        \* self._last_main_anneal   (an option: <<>> is None, <<v>> is v)
    last_pressure,    \* self._last_pressure_anneal
    mtl_registered,   \* self.mtl.registered
    mtl_names,        \* the list handed to self.mtl.register
    register_count,   \* how many times self.mtl.register was invoked
    mtl_called,       \* whether self.mtl(losses) was ever invoked
    nonempty_seen,    \* whether some call has assembled a non-empty loss dictionary
    recent_main,      \* value returned by the latest self._main_anneal.pop() branch (line 118)
    recent_pressure,  \* value returned by the latest self._pressure_anneal.pop() branch (line 137)
    bundles,          \* the prediction bundles (key sets) the surrounding model can emit
    lastcall,         \* what the latest _core call did and returned
    calc,             \* a computation on tensor values: its inputs and, once run, its result
    pipeline          \* the inference pipeline: an Inference, an ONNX wrapper, the latest call on them

vars == << joint_training, use_anneal, enabled, training, cursor, has_last,
           last_main, last_pressure, mtl_registered, mtl_names, register_count,
           mtl_called, nonempty_seen, recent_main, recent_pressure, bundles,
           lastcall, calc, pipeline >>

----------------------------------------------------------------------------
(* Bounds *)

\* anneal step counters are capped here (guard of Forward)
MaxStep == 2
\* largest number of target rows (batch size) of a call
MaxBatch == 2
\* tensor entries range over 0..MaxVal (in tenths)
MaxVal == 3
\* how many times a schedule is popped in a row
MaxPops == 12
\* config["anneal_step"] of the modelled instances
AnnealStep == 12
\* how many keys an architecture's bundle may lack
MaxMissing == 2
\* how many term schedules a configuration may disable (method None)
MaxDisabled == 1
\* how many batches a loader handed to Inference.predict may yield
MaxLoader == 2

----------------------------------------------------------------------------
(* Options: None is <<>>, a value v is <<v>> *)

None == << >>

Some(v) == << v >>

Range(s) == { s[i] : i \in 1..Len(s) }

----------------------------------------------------------------------------
(* Anneal schedules *)

Terms == {"median", "main", "monotonous", "anchor", "dual", "recover", "pressure"}

default_anneal_methods ==
    [ median |-> "linear", main |-> "linear", monotonous |-> "sigmoid",
      anchor |-> "linear", dual |-> "sigmoid", recover |-> "sigmoid",
      pressure |-> "sigmoid" ]

\* ratios in hundredths
default_anneal_ratios ==
    [ median |-> 25, main |-> 25, monotonous |-> 20, anchor |-> 20,
      dual |-> 75, recover |-> 75, pressure |-> 50 ]

\* floors and ceilings in tenths
default_anneal_floors ==
    [ median |-> 10, main |-> 0, monotonous |-> 0, anchor |-> 0,
      dual |-> 0, recover |-> 0, pressure |-> 0 ]

default_anneal_ceilings ==
    [ median |-> 25, main |-> 8, monotonous |-> 25, anchor |-> 20,
      dual |-> 1, recover |-> 1, pressure |-> 10 ]

\* Python's round(num / den) for num, den > 0: half to even
Round(num, den) ==
    LET q == num \div den
        r == num % den
    IN  IF 2 * r < den THEN q
        ELSE IF 2 * r > den THEN q + 1
        ELSE IF q % 2 = 0 THEN q ELSE q + 1

\* round(self._anneal_step * anneal_ratios[anneal])
Duration(t) == Round(AnnealStep * default_anneal_ratios[t], 100)

\* The weight an Anneal(method, n, floor, ceiling) returns when its cursor has
\* reached c: a monotone ramp from the floor, the ceiling from step n on.
AnnealValue(method, n, floor, ceiling, c) ==
    IF c >= n THEN ceiling
    ELSE IF method = "linear"
         THEN floor + ((ceiling - floor) * c) \div n
         ELSE floor + ((ceiling - floor) * (3 * c * c * n - 2 * c * c * c)) \div (n * n * n)

\* Anneal.pop() of term t's schedule, seen from a cursor c: the cursor advances
\* by one and the weight of the new step is returned.
AnnealPop(t, c) ==
    [ cursor |-> c + 1,
      value  |-> AnnealValue(default_anneal_methods[t], Duration(t),
                             default_anneal_floors[t], default_anneal_ceilings[t],
                             c + 1) ]

----------------------------------------------------------------------------
(* Resolving the anneal weights: _core, lines 113-147 *)

\* the order in which _core pops the schedules
PopOrder == << "main", "median", "monotonous", "anchor", "dual", "recover", "pressure" >>

\* the attribute whose None-ness decides whether term t's schedule is popped
PopGate(t) == IF t \in {"anchor", "dual", "recover"} THEN "median" ELSE t

NoWeights == [ t \in Terms |-> None ]

\* One conditional pop of the else-branch: `None if self._<gate> is None else
\* self._<t>.pop()`.  Popping an attribute that is None raises AttributeError
\* and nothing after it runs.
PopStep(st, t) ==
    IF st.err THEN st
    ELSE IF PopGate(t) \notin enabled
         THEN [ st EXCEPT !.w[t] = None,
                          !.rmain = IF t = "main" THEN None ELSE @,
                          !.rpressure = IF t = "pressure" THEN None ELSE @ ]
         ELSE IF t \notin enabled
              THEN [ st EXCEPT !.err = TRUE ]
              ELSE LET p == AnnealPop(t, st.cursor[t])
                   IN  [ st EXCEPT !.cursor[t] = p.cursor,
                                   !.w[t] = Some(p.value),
                                   !.pops[t] = @ + 1,
                                   !.rmain = IF t = "main" THEN Some(p.value) ELSE @,
                                   !.rpressure = IF t = "pressure" THEN Some(p.value) ELSE @ ]

RECURSIVE RunPops(_, _)
RunPops(i, st) ==
    IF i > Len(PopOrder) THEN st ELSE RunPops(i + 1, PopStep(st, PopOrder[i]))

\* A faulty variant of Popping: the diagnostic flag is not consulted.
PoppingIgnoringDiagnostic(diag) == use_anneal /\ training

\* A faulty variant of Popping: the training mode is not consulted.
PoppingIgnoringTraining(diag) == use_anneal /\ ~diag

\* Line 113: the schedules are popped only when annealing is configured, the
\* module is in training mode and the call is not diagnostic.
Popping(diag) == use_anneal /\ training /\ ~diag

\* Line 143: a diagnostic call reuses the stored main / pressure weights.
Reuse(diag) == use_anneal /\ diag

\* A faulty variant of StoreLast: the pressure weight is not stored.
StoreLastMainOnly(w) == [ main |-> w["main"], pressure |-> None ]

\* Lines 139-142: what a completed round of pops stores.
StoreLast(w) == [ main |-> w["main"], pressure |-> w["pressure"] ]

\* Lines 113-147: the weights of this call, the cursors after it, and what is
\* stored in self._last_main_anneal / self._last_pressure_anneal.
\* err is "ok" or the exception raised while resolving.
ResolveAnneal(diag) ==
    LET start == [ cursor |-> cursor, w |-> NoWeights, err |-> FALSE,
                   pops |-> [ t \in Terms |-> 0 ],
                   rmain |-> recent_main, rpressure |-> recent_pressure ]
        popping == Popping(diag)
        st == IF popping THEN RunPops(1, start) ELSE start
        stored == popping /\ ~st.err
        hl == has_last \/ stored
        lm == IF stored THEN StoreLast(st.w).main ELSE last_main
        lp == IF stored THEN StoreLast(st.w).pressure ELSE last_pressure
        reuse == Reuse(diag)
    IN  [ cursor |-> st.cursor,
          pops   |-> st.pops,
          rmain  |-> st.rmain,
          rpressure |-> st.rpressure,
          has_last |-> hl,
          last_main |-> lm,
          last_pressure |-> lp,
          err |-> IF st.err THEN "AttributeError"
                  ELSE IF reuse /\ ~hl THEN "AttributeError"
                  ELSE "ok",
          w |-> IF reuse /\ hl
                THEN [ st.w EXCEPT !["main"] = lm, !["pressure"] = lp ]
                ELSE st.w ]

----------------------------------------------------------------------------
(* Prediction bundles: the set of keys present *)

Keys ==
    { "predictions", "anchor_batch", "cdf_raw", "sampled_anchors", "sampled_cdf_raw",
      "quantile_batch", "median_residual", "quantile_residual", "quantile_sign",
      "sampled_quantiles", "sampled_quantile_residual", "pdf", "sampled_pdf",
      "quantile_residual_gradient", "sampled_qr_gradient",
      "dual_quantile", "quantile_cdf_raw", "dual_cdf", "cdf_quantile_residual",
      "median_detach", "pp_dict", "pn_dict" }

Has(b, k) == k \in b

----------------------------------------------------------------------------
(* The stages of _core after the anneal weights are known.  Each stage gives *)
(* the exception it raises ("ok" if none) and which of its losses have been  *)
(* computed (are not None) when it ends or raises.                           *)

\* A faulty variant of CdfStage: anchor_batch is not asserted.
CdfStageAnchorUnchecked(b, diag) ==
    LET fetch_cdf == Has(b, "cdf_raw")
        run == fetch_cdf /\ ~diag
        sampled == Has(b, "sampled_cdf_raw")
    IN  [ err |-> IF ~run THEN "ok"
                  ELSE IF sampled /\ ~Has(b, "sampled_anchors") THEN "AssertionError"
                  ELSE "ok",
          cdf_losses |-> run,
          cdf_anchor_losses |-> run /\ sampled /\ Has(b, "sampled_anchors") ]

\* Lines 176-194: the assertion of line 182 precedes every loss, the one of
\* line 188 follows cdf_losses
CdfStage(b, diag) ==
    LET fetch_cdf == Has(b, "cdf_raw")
        run == fetch_cdf /\ ~diag
        sampled == Has(b, "sampled_cdf_raw")
        passed == run /\ Has(b, "anchor_batch")
    IN  [ err |-> IF ~run THEN "ok"
                  ELSE IF ~Has(b, "anchor_batch") THEN "AssertionError"
                  ELSE IF sampled /\ ~Has(b, "sampled_anchors") THEN "AssertionError"
                  ELSE "ok",
          cdf_losses |-> passed,
          cdf_anchor_losses |-> passed /\ sampled /\ Has(b, "sampled_anchors") ]

\* Lines 196-199: the product `pdf_losses * monotonous_anneal` is taken when
\* anchor_anneal is not None; multiplying a tensor by None raises TypeError,
\* and pdf_losses then keeps the unscaled sum of line 197.
PdfStage(b, w) ==
    LET run == Has(b, "pdf") /\ Has(b, "sampled_pdf")
    IN  [ err |-> IF run /\ w["anchor"] # None /\ w["monotonous"] = None
                  THEN "TypeError" ELSE "ok",
          pdf_losses |-> run,
          scaled |-> run /\ w["anchor"] # None /\ w["monotonous"] # None ]

\* A faulty variant of QuantileStage: the diagnostic flag is not consulted.
QuantileStageIgnoringDiagnostic(b, diag) ==
    LET fetch_quantile == Has(b, "quantile_residual")
        run == fetch_quantile
        sampled == Has(b, "sampled_quantile_residual")
        passed == /\ run
                  /\ Has(b, "quantile_sign") /\ Has(b, "quantile_batch")
                  /\ Has(b, "median_residual") /\ Has(b, "median_detach")
    IN  [ err |-> IF ~run THEN "ok"
                  ELSE IF ~Has(b, "quantile_sign") THEN "AssertionError"
                  ELSE IF ~Has(b, "quantile_batch") THEN "AssertionError"
                  ELSE IF ~Has(b, "median_residual") THEN "AssertionError"
                  ELSE IF ~Has(b, "median_detach") THEN "KeyError"
                  ELSE IF sampled /\ ~Has(b, "sampled_quantiles") THEN "AssertionError"
                  ELSE "ok",
          median_residual_losses |-> passed,
          quantile_losses |-> passed,
          quantile_anchor_losses |-> passed /\ sampled /\ Has(b, "sampled_quantiles") ]

\* Lines 201-236: the assertions of lines 203-206 and the lookup of line 207
\* precede every loss, the assertion of line 227 follows quantile_losses
QuantileStage(b, diag) ==
    LET fetch_quantile == Has(b, "quantile_residual")
        run == fetch_quantile /\ ~diag
        sampled == Has(b, "sampled_quantile_residual")
        passed == /\ run
                  /\ Has(b, "quantile_sign") /\ Has(b, "quantile_batch")
                  /\ Has(b, "median_residual") /\ Has(b, "median_detach")
    IN  [ err |-> IF ~run THEN "ok"
                  ELSE IF ~Has(b, "quantile_sign") THEN "AssertionError"
                  ELSE IF ~Has(b, "quantile_batch") THEN "AssertionError"
                  ELSE IF ~Has(b, "median_residual") THEN "AssertionError"
                  ELSE IF ~Has(b, "median_detach") THEN "KeyError"
                  ELSE IF sampled /\ ~Has(b, "sampled_quantiles") THEN "AssertionError"
                  ELSE "ok",
          median_residual_losses |-> passed,
          quantile_losses |-> passed,
          quantile_anchor_losses |-> passed /\ sampled /\ Has(b, "sampled_quantiles") ]

\* Lines 238-243 and _get_median_pressure_losses (480-502)
PressureStage(b) ==
    LET fetch_quantile == Has(b, "quantile_residual")
    IN  [ err |-> IF ~fetch_quantile THEN "ok"
                  ELSE IF ~Has(b, "pp_dict") THEN "KeyError"
                  ELSE IF ~Has(b, "pn_dict") THEN "KeyError"
                  ELSE "ok",
          median_pressure_losses |->
              fetch_quantile /\ Has(b, "pp_dict") /\ Has(b, "pn_dict") ]

\* Lines 245-260: quantile_monotonous_losses is assigned at line 260, after
\* the assertion of line 258
MonotonousStage(b, w) ==
    LET grads == Has(b, "quantile_residual_gradient") /\ Has(b, "sampled_qr_gradient")
        resid == Has(b, "median_residual") /\ Has(b, "quantile_sign")
        run == grads \/ resid
        failed == run /\ w["anchor"] # None /\ w["monotonous"] = None
    IN  [ err |-> IF failed THEN "AssertionError" ELSE "ok",
          quantile_monotonous_losses |-> run /\ ~failed ]

\* Lines 262-335: the assertions of lines 272-277 precede every loss
DualStage(b, diag) ==
    LET run == /\ joint_training
               /\ Has(b, "cdf_raw")
               /\ Has(b, "quantile_residual")
               /\ ~diag
        passed == run /\ Has(b, "dual_quantile") /\ Has(b, "dual_cdf")
    IN  [ err |-> IF ~run THEN "ok"
                  ELSE IF ~Has(b, "dual_quantile") THEN "AssertionError"
                  ELSE IF ~Has(b, "dual_cdf") THEN "AssertionError"
                  ELSE "ok",
          quantile_recover_losses |-> passed,
          dual_quantile_losses |-> passed /\ Has(b, "quantile_cdf_raw"),
          cdf_recover_losses |-> passed,
          dual_cdf_losses |-> passed /\ Has(b, "cdf_quantile_residual") ]

\* Lines 347-394: the loss dictionary, as the list of its keys in insertion
\* order.  L tells which losses are not None.
Opt(cond, k) == IF cond THEN << k >> ELSE << >>

\* A faulty variant of SyntheticKey: the key is never prefixed.
SyntheticKeyNeverPrefixed(diag, k) == k

SyntheticKey(diag, k) == IF diag THEN "synthetic_" \o k ELSE k

\* A faulty variant of BranchKeys: the anchor variants are kept only without joint training.
BranchKeysAnchorsOnlyWithoutJoint(b, L) ==
    LET fetch_cdf == Has(b, "cdf_raw")
        fetch_quantile == Has(b, "quantile_residual")
    IN  IF ~joint_training
        THEN Opt(L.cdf_anchor_losses, "cdf_anchor")
             \o Opt(L.quantile_anchor_losses, "quantile_anchor")
        ELSE (IF fetch_cdf THEN << "cdf" >> ELSE << >>)
             \o (IF fetch_quantile THEN << "quantile" >> ELSE << >>)
             \o (IF fetch_cdf /\ fetch_quantile
                 THEN << "quantile_recover", "cdf_recover", "dual_quantile", "dual_cdf" >>
                 ELSE << >>)

\* A faulty variant of BranchKeys: the primary keys are kept without joint training too.
BranchKeysJointIgnored(b, L) ==
    LET fetch_cdf == Has(b, "cdf_raw")
        fetch_quantile == Has(b, "quantile_residual")
    IN  (IF fetch_cdf
         THEN << "cdf" >> \o Opt(L.cdf_anchor_losses, "cdf_anchor")
         ELSE << >>)
        \o (IF fetch_quantile
            THEN << "quantile" >> \o Opt(L.quantile_anchor_losses, "quantile_anchor")
            ELSE << >>)
        \o (IF joint_training /\ fetch_cdf /\ fetch_quantile
            THEN << "quantile_recover", "cdf_recover", "dual_quantile", "dual_cdf" >>
            ELSE << >>)

\* Lines 351-375, the keys after "median" of a non-diagnostic call
BranchKeys(b, L) ==
    LET fetch_cdf == Has(b, "cdf_raw")
        fetch_quantile == Has(b, "quantile_residual")
    IN  IF ~joint_training
        THEN Opt(L.cdf_anchor_losses, "cdf_anchor")
             \o Opt(L.quantile_anchor_losses, "quantile_anchor")
        ELSE (IF fetch_cdf
              THEN << "cdf" >> \o Opt(L.cdf_anchor_losses, "cdf_anchor")
              ELSE << >>)
             \o (IF fetch_quantile
                 THEN << "quantile" >> \o Opt(L.quantile_anchor_losses, "quantile_anchor")
                 ELSE << >>)
             \o (IF fetch_cdf /\ fetch_quantile
                 THEN << "quantile_recover", "cdf_recover", "dual_quantile", "dual_cdf" >>
                 ELSE << >>)

\* Lines 376-394, the keys every call appends
TailKeys(diag, L) ==
    Opt(L.median_residual_losses, "median_residual_losses")
    \o Opt(L.median_pressure_losses, SyntheticKey(diag, "median_pressure_losses"))
    \o Opt(L.pdf_losses, SyntheticKey(diag, "pdf"))
    \o Opt(L.quantile_monotonous_losses, SyntheticKey(diag, "quantile_monotonous"))

\* The assertions of lines 358-371
CombineErr(b, diag, L) ==
    LET fetch_cdf == Has(b, "cdf_raw")
        fetch_quantile == Has(b, "quantile_residual")
    IN  IF diag \/ ~joint_training THEN "ok"
        ELSE IF fetch_cdf /\ ~L.cdf_losses THEN "AssertionError"
        ELSE IF fetch_quantile /\ ~L.quantile_losses THEN "AssertionError"
        ELSE IF ~(fetch_cdf /\ fetch_quantile) THEN "ok"
        ELSE IF ~L.quantile_recover_losses THEN "AssertionError"
        ELSE IF ~L.cdf_recover_losses THEN "AssertionError"
        ELSE IF ~L.dual_quantile_losses THEN "AssertionError"
        ELSE IF ~L.dual_cdf_losses THEN "AssertionError"
        ELSE "ok"

\* A faulty variant of Combine: the dictionary does not start with the median.
CombineWithoutMedian(b, diag, L) ==
    (IF diag THEN << >> ELSE BranchKeys(b, L)) \o TailKeys(diag, L)

Combine(b, diag, L) ==
    (IF diag THEN << >> ELSE << "median" >> \o BranchKeys(b, L)) \o TailKeys(diag, L)

----------------------------------------------------------------------------
(* Anneal scaling: which weights are multiplied into which loss *)

LossNames ==
    { "median_losses", "cdf_losses", "cdf_anchor_losses", "pdf_losses",
      "median_residual_losses", "quantile_losses", "quantile_anchor_losses",
      "median_pressure_losses", "quantile_monotonous_losses",
      "quantile_recover_losses", "dual_quantile_losses", "cdf_recover_losses",
      "dual_cdf_losses" }

NoLosses == [ n \in LossNames \ { "median_losses" } |-> FALSE ]

NoScaling == [ n \in LossNames |-> {} ]

\* the terms among ts whose weight is not None
Present(w, ts) == { t \in ts : w[t] # None }

\* The `if <x>_anneal is not None: <loss> = <loss> * <y>_anneal` statements of
\* lines 151-345: for every loss, the terms whose weight it is multiplied by
\* (directly, or through median_residual_losses being added into it at lines
\* 224 and 333).  The products of lines 199 and 259 are gated on the anchor
\* weight and multiply by the monotonous weight; with that weight None line
\* 199 raises and leaves pdf_losses unscaled.
AnnealScaling(w, L) ==
    LET gate == w["anchor"] # None
        On(c, ts) == IF c THEN ts ELSE {}
        mr == On(L.median_residual_losses, Present(w, { "anchor" }))
    IN  [ median_losses |-> Present(w, { "median" }),
          cdf_losses |-> On(L.cdf_losses, Present(w, { "main" })),
          cdf_anchor_losses |-> On(L.cdf_anchor_losses, Present(w, { "anchor" })),
          pdf_losses |-> On(L.pdf_losses /\ gate, Present(w, { "monotonous" })),
          median_residual_losses |-> mr,
          quantile_losses |-> On(L.quantile_losses, mr \cup Present(w, { "main" })),
          quantile_anchor_losses |->
              On(L.quantile_anchor_losses, Present(w, { "anchor" })),
          median_pressure_losses |->
              On(L.median_pressure_losses, Present(w, { "pressure" })),
          quantile_monotonous_losses |->
              On(L.quantile_monotonous_losses /\ gate, { "monotonous" }),
          quantile_recover_losses |->
              On(L.quantile_recover_losses, Present(w, { "recover" })),
          dual_quantile_losses |-> On(L.dual_quantile_losses, Present(w, { "dual" })),
          cdf_recover_losses |-> On(L.cdf_recover_losses, Present(w, { "recover" })),
          dual_cdf_losses |-> On(L.dual_cdf_losses, mr \cup Present(w, { "dual" })) ]

----------------------------------------------------------------------------
(* Tensors, as far as their shape and a common value *)

\* self._zero = torch.zeros([1, 1])
Zero == [ rows |-> 1, cols |-> 1, val |-> 0 ]

\* tensor.repeat(r, c)
Repeat(t, r, c) == [ rows |-> t.rows * r, cols |-> t.cols * c, val |-> t.val ]

\* A faulty variant of ZeroLoss: self._zero is returned without being repeated.
ZeroLossNotRepeated(n) == Zero

\* Lines 396-397: the fallback of an empty dictionary; target has n rows
ZeroLoss(n) == Repeat(Zero, n, 1)

----------------------------------------------------------------------------
(* The body of _core after the anneal weights: lines 148-400 *)

FirstError(errs) ==
    LET bad == { i \in 1..Len(errs) : errs[i] # "ok" }
    IN  IF bad = {} THEN "ok"
        ELSE errs[CHOOSE i \in bad : \A j \in bad : i <= j]

\* Line 149: predictions["predictions"]
MedianStage(b) == [ err |-> IF Has(b, "predictions") THEN "ok" ELSE "KeyError" ]

\* A faulty variant of MustRegister: the names are registered on every non-empty call.
MustRegisterAlways(keys) == TRUE

\* MTL.register(names): the aggregator keeps the names and reports itself
\* registered from then on
MtlRegister(names) == [ registered |-> TRUE, names |-> names ]

\* Line 398: register only while the aggregator is unregistered
MustRegister(keys) == ~mtl_registered

\* The stages run in the order of the source and the first exception ends
\* the call: a stage is reached when every stage before it has ended without
\* one, and only the losses of the stages reached are computed and scaled.
Losses(b, diag, w) ==
    LET a == MedianStage(b)
        c == CdfStage(b, diag)
        p == PdfStage(b, w)
        q == QuantileStage(b, diag)
        m == PressureStage(b)
        g == MonotonousStage(b, w)
        d == DualStage(b, diag)
        at_c == a.err = "ok"
        at_p == at_c /\ c.err = "ok"
        at_q == at_p /\ p.err = "ok"
        at_m == at_q /\ q.err = "ok"
        at_g == at_m /\ m.err = "ok"
        at_d == at_g /\ g.err = "ok"
        L == [ cdf_losses |-> at_c /\ c.cdf_losses,
               cdf_anchor_losses |-> at_c /\ c.cdf_anchor_losses,
               pdf_losses |-> at_p /\ p.pdf_losses,
               median_residual_losses |-> at_q /\ q.median_residual_losses,
               quantile_losses |-> at_q /\ q.quantile_losses,
               quantile_anchor_losses |-> at_q /\ q.quantile_anchor_losses,
               median_pressure_losses |-> at_m /\ m.median_pressure_losses,
               quantile_monotonous_losses |-> at_g /\ g.quantile_monotonous_losses,
               quantile_recover_losses |-> at_d /\ d.quantile_recover_losses,
               dual_quantile_losses |-> at_d /\ d.dual_quantile_losses,
               cdf_recover_losses |-> at_d /\ d.cdf_recover_losses,
               dual_cdf_losses |-> at_d /\ d.dual_cdf_losses ]
        err == FirstError(<< a.err, c.err, p.err, q.err, m.err, g.err,
                             d.err, CombineErr(b, diag, L) >>)
    IN  [ err |-> err,
          computed |-> L,
          pdf_scaled |-> at_p /\ p.scaled,
          scale |-> [ AnnealScaling(w, L) EXCEPT
                        !.median_losses = IF at_c THEN @ ELSE {} ],
          keys |-> IF err = "ok" THEN Combine(b, diag, L) ELSE << >> ]

----------------------------------------------------------------------------
(* Bundles and configurations the model is driven with *)

MedianKeys == { "predictions" }
CdfKeys == { "cdf_raw", "anchor_batch" }
SampledCdfKeys == { "sampled_cdf_raw", "sampled_anchors" }
QuantileKeys == { "quantile_residual", "quantile_sign", "quantile_batch",
                  "median_residual", "median_detach", "pp_dict", "pn_dict" }
SampledQuantileKeys == { "sampled_quantile_residual", "sampled_quantiles" }
PdfKeys == { "pdf", "sampled_pdf" }
GradientKeys == { "quantile_residual_gradient", "sampled_qr_gradient" }
DualKeys == { "dual_quantile", "quantile_cdf_raw", "dual_cdf", "cdf_quantile_residual" }

Branches == { CdfKeys, SampledCdfKeys, QuantileKeys, SampledQuantileKeys,
              PdfKeys, GradientKeys, DualKeys }

\* the bundle of a model with the median head and any set of branches
Architectures == { MedianKeys \cup UNION G : G \in SUBSET Branches }

\* b and every bundle that lacks at most m of b's keys
RECURSIVE Lacking(_, _)
Lacking(b, m) ==
    IF m = 0 THEN { b }
    ELSE LET less == Lacking(b, m - 1)
         IN  less \cup { s \ { k } : s \in less, k \in b }

\* the bundles of a model that emits the same keys on every batch: every
\* architecture, and the complete bundle lacking at most MaxMissing keys
ArchBundles == { {} } \cup Architectures \cup Lacking(Keys, MaxMissing)

\* the bundles of a model whose calls vary
SeqBundles ==
    { {}, MedianKeys, MedianKeys \cup PdfKeys, Keys, Keys \ { "dual_cdf" } }

\* the sets of terms whose schedule stays enabled
EnabledSets == { Terms \ D : D \in { X \in SUBSET Terms : Cardinality(X) <= MaxDisabled } }

\* no computation on values is under way
Idle == [ op |-> "none" ]

\* no Inference and no ONNX wrapper constructed yet
Unbuilt == [ inference |-> None, wrapper |-> None, last |-> [ op |-> "none" ] ]

FreshCall ==
    [ outcome |-> "none", bundle |-> {}, diag |-> FALSE, training |-> TRUE, rows |-> 0,
      assembled |-> FALSE, keys |-> << >>, w |-> NoWeights,
      computed |-> NoLosses, scale |-> NoScaling,
      pops |-> [ t \in Terms |-> 0 ], cursor0 |-> [ t \in Terms |-> 0 ],
      registered_now |-> FALSE, mtl_arg |-> None,
      ret_loss |-> None, ret_keys |-> << >> ]

\* The state _init_config leaves (lines 15-96).  An instance is driven either
\* with varying bundles under any of the anneal configurations, or with one
\* architecture's bundle and annealing off.
Init ==
    /\ joint_training \in BOOLEAN
    /\ \/ /\ bundles = SeqBundles
          /\ \/ use_anneal = FALSE /\ enabled = {}
             \/ use_anneal = TRUE /\ enabled \in EnabledSets
       \/ /\ bundles \in { { b } : b \in ArchBundles }
          /\ use_anneal = FALSE
          /\ enabled = {}
    /\ training = TRUE
    /\ cursor = [ t \in Terms |-> 0 ]
    /\ has_last = FALSE
    /\ last_main = None
    /\ last_pressure = None
    /\ mtl_registered = FALSE
    /\ mtl_names = << >>
    /\ register_count = 0
    /\ mtl_called = FALSE
    /\ nonempty_seen = FALSE
    /\ recent_main = None
    /\ recent_pressure = None
    /\ lastcall = FreshCall
    /\ calc = Idle
    /\ pipeline = Unbuilt

----------------------------------------------------------------------------
(* Operations *)

\* DDRLoss._core(predictions = b, target with n rows, check_monotonous_only = diag)
Forward(b, diag, n) ==
    \E a \in { ResolveAnneal(diag) } :
    \E r \in { IF a.err = "ok" THEN Losses(b, diag, a.w)
                ELSE [ err |-> a.err, keys |-> << >>, computed |-> NoLosses,
                       scale |-> NoScaling ] } :
    LET ok == r.err = "ok"
        empty == r.keys = << >>
        reg == ok /\ ~empty /\ MustRegister(r.keys)
        call == ok /\ ~empty
    IN  /\ Popping(diag) => \A t \in Terms : cursor[t] < MaxStep
        /\ cursor' = a.cursor
        /\ has_last' = a.has_last
        /\ last_main' = a.last_main
        /\ last_pressure' = a.last_pressure
        /\ recent_main' = a.rmain
        /\ recent_pressure' = a.rpressure
        /\ mtl_registered' = IF reg THEN MtlRegister(r.keys).registered ELSE mtl_registered
        /\ mtl_names' = IF reg THEN MtlRegister(r.keys).names ELSE mtl_names
        /\ register_count' = IF reg THEN register_count + 1 ELSE register_count
        /\ mtl_called' = (mtl_called \/ call)
        /\ nonempty_seen' = (nonempty_seen \/ call)
        /\ lastcall' =
             [ outcome |-> IF ~ok THEN r.err ELSE IF empty THEN "zero" ELSE "returned",
               bundle |-> b, diag |-> diag, training |-> training, rows |-> n,
               assembled |-> ok,
               keys |-> r.keys,
               w |-> a.w,
               computed |-> r.computed,
               scale |-> r.scale,
               pops |-> a.pops,
               cursor0 |-> cursor,
               registered_now |-> reg,
               mtl_arg |-> IF call THEN Some(r.keys) ELSE None,
               ret_loss |-> IF ok /\ empty THEN Some(ZeroLoss(n)) ELSE None,
               ret_keys |-> IF ~ok THEN << >>
                            ELSE IF empty THEN << "loss" >> ELSE r.keys ]
        /\ UNCHANGED << joint_training, use_anneal, enabled, training, bundles, pipeline >>

\* nn.Module.train()
Train ==
    /\ training' = TRUE
    /\ UNCHANGED << joint_training, use_anneal, enabled, cursor, has_last, last_main,
                    last_pressure, mtl_registered, mtl_names, register_count,
                    mtl_called, nonempty_seen, recent_main, recent_pressure, bundles,
                    lastcall, calc, pipeline >>

\* nn.Module.eval()
Eval ==
    /\ training' = FALSE
    /\ UNCHANGED << joint_training, use_anneal, enabled, cursor, has_last, last_main,
                    last_pressure, mtl_registered, mtl_names, register_count,
                    mtl_called, nonempty_seen, recent_main, recent_pressure, bundles,
                    lastcall, calc, pipeline >>

Next ==
    \/ \E b \in bundles, diag \in BOOLEAN, n \in 1..MaxBatch :
           Forward(b, diag, n) /\ UNCHANGED calc
    \/ Train
    \/ Eval

Spec == Init /\ [][Next]_vars

----------------------------------------------------------------------------
(* Loss values.  Tensor entries and anneal weights are integers in tenths,  *)
(* so an entry of a loss is an integer in hundredths.                       *)

Abs(x) == IF x < 0 THEN -x ELSE x

Max(x, y) == IF x >= y THEN x ELSE y

RECURSIVE SumSeq(_)
SumSeq(t) == IF t = << >> THEN 0 ELSE Head(t) + SumSeq(Tail(t))

\* A faulty variant of MedianLosses: the signed error, not its absolute value.
MedianLossesSigned(median, target, median_anneal) ==
    [ i \in 1..Len(target) |->
        (median[i] - target[i]) * (IF median_anneal = None THEN 10 ELSE median_anneal[1]) ]

\* Lines 149-152: l1_loss(median, target, reduction="none"), multiplied by the
\* median weight when there is one (1.0 is 10 tenths)
MedianLosses(median, target, median_anneal) ==
    [ i \in 1..Len(target) |->
        Abs(median[i] - target[i]) * (IF median_anneal = None THEN 10 ELSE median_anneal[1]) ]

\* MTL.__call__ on the dictionary's tensors (in key order) while every
\* registered term has weight 1.0: the entrywise sum of the terms
MtlCall(tensors) ==
    [ i \in 1..Len(tensors[1]) |-> SumSeq([ k \in 1..Len(tensors) |-> tensors[k][i] ]) ]

\* LossBase._reduce: the mean of the entries, as a fraction
Reduce(t) == [ num |-> SumSeq(t), den |-> Len(t) ]

\* A faulty variant of QuantileResidualLosses: torch.min in place of torch.max.
QuantileResidualLossesMin(target_residual, quantile_residual, quantile_batch) ==
    LET quantile_error == target_residual - quantile_residual
        q1 == quantile_batch * quantile_error
        q2 == (quantile_batch - 10) * quantile_error
    IN  IF q1 <= q2 THEN q1 ELSE q2

\* Lines 453-461, for one entry of the tensors; quantile_batch in tenths
QuantileResidualLosses(target_residual, quantile_residual, quantile_batch) ==
    LET quantile_error == target_residual - quantile_residual
        q1 == quantile_batch * quantile_error
        q2 == (quantile_batch - 10) * quantile_error
    IN  Max(q1, q2)

\* the weights k successive pops return, from a schedule whose cursor is c
RECURSIVE Pops(_, _, _)
Pops(t, c, k) ==
    IF k = 0 THEN << >>
    ELSE LET p == AnnealPop(t, c)
         IN  << p.value >> \o Pops(t, p.cursor, k - 1)

\* Fractions in lowest terms, for the weights of the dual losses
RECURSIVE GCD(_, _)
GCD(x, y) == IF y = 0 THEN x ELSE GCD(y, x % y)

Frac(n, d) == LET g == GCD(d, Abs(n)) IN [ num |-> n \div g, den |-> d \div g ]

FracMul(x, y) == Frac(x.num * y.num, x.den * y.den)

FracAdd(x, y) == Frac(x.num * y.den + y.num * x.den, x.den * y.den)

FracInv(x) == Frac(x.den, x.num)

\* torch.tanh of x tenths (x in 0..20), to three decimals
Tanh(x) ==
    Frac(<< 0, 100, 197, 291, 380, 462, 537, 604, 664, 716, 762,
            800, 834, 862, 885, 905, 922, 935, 947, 956, 964 >>[x + 1],
         1000)

\* A faulty variant of DualRecoverLosses: the dynamic weight is used whatever the flag.
DualRecoverLossesAlwaysDynamic(use_dynamic_weights, dual_prediction, another_input_batch, another_losses) ==
    IF dual_prediction = None
    THEN [ recover_losses |-> None, recover_loss_weights |-> None ]
    ELSE [ recover_losses |-> Some(Abs(another_input_batch - dual_prediction[1])),
           recover_loss_weights |->
               Some(FracInv(FracAdd(Frac(1, 1),
                                    FracMul(Frac(2, 1), Tanh(another_losses))))) ]

\* Lines 418-434, for one entry: the recover loss (in tenths) and its weight.
\* use_dynamic_weights is self._use_dynamic_dual_loss_weights.
DualRecoverLosses(use_dynamic_weights, dual_prediction, another_input_batch, another_losses) ==
    IF dual_prediction = None
    THEN [ recover_losses |-> None, recover_loss_weights |-> None ]
    ELSE [ recover_losses |-> Some(Abs(another_input_batch - dual_prediction[1])),
           recover_loss_weights |->
               IF ~use_dynamic_weights
               THEN Some(Frac(1, 1))
               ELSE Some(FracInv(FracAdd(Frac(1, 1),
                                         FracMul(Frac(2, 1), Tanh(another_losses))))) ]

\* Lines 278-308: cdf -> quantile (recover loss) -> cdf (dual loss).
\* cdf_score is _get_cdf_losses(target, quantile_cdf_raw, anchor_batch) in
\* tenths, None when quantile_cdf_raw is None.
DualQuantile(use_dynamic_weights, dual_quantile, anchor_batch, cdf_losses, cdf_score) ==
    LET r == DualRecoverLosses(use_dynamic_weights, Some(dual_quantile),
                               anchor_batch, cdf_losses)
        dual_quantile_losses_weights ==
            IF r.recover_losses = None \/ ~use_dynamic_weights
            THEN Frac(1, 1)
            ELSE FracMul(Frac(1, 2),
                         FracAdd(r.recover_loss_weights[1],
                                 FracInv(FracAdd(Frac(1, 1),
                                                 FracMul(Frac(2, 1),
                                                         Tanh(r.recover_losses[1]))))))
    IN  [ dual_quantile_losses |->
              IF cdf_score = None THEN None
              ELSE Some(FracMul(Frac(cdf_score[1], 10), dual_quantile_losses_weights)),
          quantile_recover_losses |->
              IF r.recover_losses = None THEN None
              ELSE Some(FracMul(Frac(r.recover_losses[1], 10),
                                r.recover_loss_weights[1])) ]

\* Lines 310-335: quantile -> cdf (recover loss) -> quantile (dual loss).
\* cdf_quantile_residual is an option; median_residual_losses in tenths.
DualCdf(use_dynamic_weights, dual_cdf, quantile_batch, quantile_losses, target, cdf_quantile_residual, median_residual_losses) ==
    LET r == DualRecoverLosses(use_dynamic_weights, Some(dual_cdf),
                               quantile_batch, quantile_losses)
        dual_cdf_losses_weights ==
            IF r.recover_losses = None \/ ~use_dynamic_weights
            THEN Frac(1, 1)
            ELSE FracMul(Frac(1, 2),
                         FracAdd(r.recover_loss_weights[1],
                                 FracInv(FracAdd(Frac(1, 1),
                                                 Frac(10 * r.recover_losses[1], 10)))))
    IN  [ dual_cdf_losses |->
              IF cdf_quantile_residual = None THEN None
              ELSE Some(FracAdd(
                     FracMul(Frac(QuantileResidualLosses(target, cdf_quantile_residual[1],
                                                         quantile_batch), 100),
                             dual_cdf_losses_weights),
                     Frac(median_residual_losses, 10))),
          cdf_recover_losses |->
              IF r.recover_losses = None THEN None
              ELSE Some(FracMul(Frac(r.recover_losses[1], 10),
                                r.recover_loss_weights[1])) ]

----------------------------------------------------------------------------
(* Calls on values *)

\* the scenario of the specification: median 0.7 against target 1.0
Scenario == << 7, 10 >>

\* a row of a batch: << median, target >>
Rows == ((0..MaxVal) \X (0..MaxVal)) \cup { Scenario }

Batches == UNION { [ 1..n -> Rows ] : n \in 1..MaxBatch }

ForwardInputs ==
    { [ op |-> "forward", diag |-> d,
        median |-> [ i \in 1..Len(x) |-> x[i][1] ],
        target |-> [ i \in 1..Len(x) |-> x[i][2] ],
        out |-> None ] : x \in Batches, d \in BOOLEAN }

PopsInputs ==
    { [ op |-> "pops", term |-> t, count |-> k, out |-> None ] :
        t \in Terms, k \in 1..MaxPops }

\* quantile levels strictly between 0 and 1, in tenths
QuantileLevels == 1..9

QuantileInputs ==
    { [ op |-> "quantile", quantile_batch |-> q, target_residual |-> tr,
        quantile_residual |-> qr, out |-> None ] :
        q \in QuantileLevels, tr \in 0..MaxVal, qr \in 0..MaxVal }

\* an entry of a tensor, or the tensor missing
OptionalValues == { None } \cup { Some(v) : v \in 0..MaxVal }

DualQuantileInputs ==
    { [ op |-> "dual_quantile", use_dynamic_weights |-> d, dual_quantile |-> dq,
        anchor_batch |-> a, cdf_losses |-> l, cdf_score |-> c, out |-> None ] :
        d \in BOOLEAN, dq \in 0..MaxVal, a \in 0..MaxVal, l \in 0..MaxVal,
        c \in OptionalValues }

DualCdfInputs ==
    { [ op |-> "dual_cdf", use_dynamic_weights |-> d, dual_cdf |-> dc,
        quantile_batch |-> q, quantile_losses |-> l, target |-> t,
        cdf_quantile_residual |-> c, median_residual_losses |-> m, out |-> None ] :
        d \in BOOLEAN, dc \in 0..MaxVal, q \in QuantileLevels, l \in 0..MaxVal,
        t \in 0..MaxVal, c \in OptionalValues, m \in 0..MaxVal }

\* A loss instance that is handed median-only bundles, with annealing off or
\* with all seven schedules on, and the inputs of one computation.
InitValues ==
    /\ joint_training \in BOOLEAN
    /\ \/ use_anneal = FALSE /\ enabled = {}
       \/ use_anneal = TRUE /\ enabled = Terms
    /\ bundles = { MedianKeys }
    /\ training = TRUE
    /\ cursor = [ t \in Terms |-> 0 ]
    /\ has_last = FALSE
    /\ last_main = None
    /\ last_pressure = None
    /\ mtl_registered = FALSE
    /\ mtl_names = << >>
    /\ register_count = 0
    /\ mtl_called = FALSE
    /\ nonempty_seen = FALSE
    /\ recent_main = None
    /\ recent_pressure = None
    /\ lastcall = FreshCall
    /\ pipeline = Unbuilt
    /\ \/ calc \in ForwardInputs
       \/ calc \in PopsInputs
       \/ calc \in QuantileInputs
       \/ calc \in DualQuantileInputs /\ joint_training /\ ~use_anneal
       \/ calc \in DualCdfInputs /\ joint_training /\ ~use_anneal

\* DDRLoss.forward (lines 402-416) on a median-only bundle: _core, the
\* aggregated loss reduced, and every entry of the dictionary reduced
ForwardValues ==
    /\ calc.op = "forward"
    /\ Forward(MedianKeys, calc.diag, Len(calc.target))
    /\ \E w \in { lastcall'.w["median"] } :
       \E ml \in { MedianLosses(calc.median, calc.target, w) } :
       LET n == Len(calc.target)
           zero == [ i \in 1..n |-> ZeroLoss(n).val ]
           losses == IF lastcall'.outcome = "returned" THEN MtlCall(<< ml >>) ELSE zero
       IN  calc' =
             [ calc EXCEPT !.out =
                 IF lastcall'.outcome \notin { "returned", "zero" }
                 THEN Some([ outcome |-> lastcall'.outcome ])
                 ELSE Some([ outcome |-> lastcall'.outcome,
                             keys |-> lastcall'.ret_keys,
                             median_losses |-> ml,
                             losses |-> losses,
                             reduced_losses |-> Reduce(losses),
                             reduced_losses_dict |->
                                 IF lastcall'.outcome = "returned"
                                 THEN << Reduce(ml) >> ELSE << Reduce(zero) >> ]) ]

\* successive pops of the schedule _init_config builds for a term
ApplyPops ==
    /\ calc.op = "pops"
    /\ calc.out = None
    /\ calc.term \in enabled
    /\ calc' = [ calc EXCEPT !.out = Some(Pops(calc.term, 0, calc.count)) ]
    /\ UNCHANGED << joint_training, use_anneal, enabled, training, cursor, has_last,
                    last_main, last_pressure, mtl_registered, mtl_names,
                    register_count, mtl_called, nonempty_seen, recent_main,
                    recent_pressure, bundles, lastcall, pipeline >>

\* DDRLoss._get_quantile_residual_losses on one entry
ApplyQuantile ==
    /\ calc.op = "quantile"
    /\ calc.out = None
    /\ calc' = [ calc EXCEPT !.out =
                   Some(QuantileResidualLosses(calc.target_residual,
                                               calc.quantile_residual,
                                               calc.quantile_batch)) ]
    /\ UNCHANGED << joint_training, use_anneal, enabled, training, cursor, has_last,
                    last_main, last_pressure, mtl_registered, mtl_names,
                    register_count, mtl_called, nonempty_seen, recent_main,
                    recent_pressure, bundles, lastcall, pipeline >>

\* the first half of the dual block of _core, under joint training
ApplyDualQuantile ==
    /\ calc.op = "dual_quantile"
    /\ calc.out = None
    /\ joint_training
    /\ calc' = [ calc EXCEPT !.out =
                   Some(DualQuantile(calc.use_dynamic_weights, calc.dual_quantile,
                                     calc.anchor_batch, calc.cdf_losses,
                                     calc.cdf_score)) ]
    /\ UNCHANGED << joint_training, use_anneal, enabled, training, cursor, has_last,
                    last_main, last_pressure, mtl_registered, mtl_names,
                    register_count, mtl_called, nonempty_seen, recent_main,
                    recent_pressure, bundles, lastcall, pipeline >>

\* the second half of the dual block of _core, under joint training
ApplyDualCdf ==
    /\ calc.op = "dual_cdf"
    /\ calc.out = None
    /\ joint_training
    /\ calc' = [ calc EXCEPT !.out =
                   Some(DualCdf(calc.use_dynamic_weights, calc.dual_cdf,
                                calc.quantile_batch, calc.quantile_losses,
                                calc.target, calc.cdf_quantile_residual,
                                calc.median_residual_losses)) ]
    /\ UNCHANGED << joint_training, use_anneal, enabled, training, cursor, has_last,
                    last_main, last_pressure, mtl_registered, mtl_names,
                    register_count, mtl_called, nonempty_seen, recent_main,
                    recent_pressure, bundles, lastcall, pipeline >>

NextValues ==
    \/ ForwardValues
    \/ ApplyPops
    \/ ApplyQuantile
    \/ ApplyDualQuantile
    \/ ApplyDualCdf

SpecValues == InitValues /\ [][NextValues]_vars

----------------------------------------------------------------------------
(* The inference pipeline (pipeline/inference.py) *)

\* the model argument: None or a ModelBase
Models == { None, Some("model") }

\* the onnx_config argument: None, a dictionary with onnx_path and
\* output_names, or a dictionary without onnx_path
OnnxConfigs == { None, Some("config"), Some("no_onnx_path") }

\* how the backend takes a batch: it always works, it works only with
\* gradients enabled, or it raises whatever the mode
BatchKinds == { "ok", "needs_grad", "raises" }

Loaders == UNION { [ 1..n -> BatchKinds ] : n \in 1..MaxLoader }

\* the keyword arguments of predict: use_grad absent, or given
UseGradKwargs == { None, Some(TRUE), Some(FALSE) }

\* ONNX.__init__ (lines 93-119)
ONNXInit(model, onnx_config) ==
    IF model = None /\ onnx_config = None
    THEN [ err |-> "ValueError", self |-> None ]
    ELSE IF onnx_config # None
    THEN IF onnx_config[1] = "no_onnx_path"
         THEN [ err |-> "KeyError", self |-> None ]
         ELSE [ err |-> "ok",
                self |-> Some([ model |-> None, ort_session |-> Some("session") ]) ]
    ELSE [ err |-> "ok", self |-> Some([ model |-> model, ort_session |-> None ]) ]

\* ONNX.to_onnx (lines 121-147): the export leaves the wrapper as it is
ToOnnx(self) ==
    IF self.model = None THEN "ValueError" ELSE "returned"

\* ONNX.inference (lines 149-156) on one batch
OnnxInference(self, batch) ==
    IF self.ort_session = None THEN "ValueError"
    ELSE IF batch = "raises" THEN "RuntimeError"
    ELSE "returned"

\* A faulty variant of InferenceInit: a supplied model is kept beside the session.
InferenceInitKeepingModel(model, onnx_config) ==
    IF model = None /\ onnx_config = None
    THEN [ err |-> "ValueError", self |-> None ]
    ELSE IF onnx_config # None
    THEN LET o == ONNXInit(None, onnx_config)
         IN  IF o.err # "ok" THEN [ err |-> o.err, self |-> None ]
             ELSE [ err |-> "ok",
                    self |-> Some([ use_grad_in_predict |-> FALSE,
                                    onnx |-> o.self, model |-> model ]) ]
    ELSE [ err |-> "ok",
           self |-> Some([ use_grad_in_predict |-> FALSE,
                           onnx |-> None, model |-> model ]) ]

\* Inference.__init__ (lines 160-198); use_grad_in_predict is
\* self._use_grad_in_predict, onnx an option holding the ONNX wrapper
InferenceInit(model, onnx_config) ==
    IF model = None /\ onnx_config = None
    THEN [ err |-> "ValueError", self |-> None ]
    ELSE IF onnx_config # None
    THEN LET o == ONNXInit(None, onnx_config)
         IN  IF o.err # "ok" THEN [ err |-> o.err, self |-> None ]
             ELSE [ err |-> "ok",
                    self |-> Some([ use_grad_in_predict |-> FALSE,
                                    onnx |-> o.self, model |-> None ]) ]
    ELSE [ err |-> "ok",
           self |-> Some([ use_grad_in_predict |-> FALSE,
                           onnx |-> None, model |-> model ]) ]

\* one pass of the loop of Inference._get_results (lines 330-347)
BatchResult(self, use_grad, batch) ==
    IF self.onnx # None THEN OnnxInference(self.onnx[1], batch)
    ELSE IF self.model = None THEN "AssertionError"
    ELSE IF batch = "raises" \/ (batch = "needs_grad" /\ ~use_grad) THEN "RuntimeError"
    ELSE "returned"

\* Inference._get_results (lines 322-348): the error of the first batch that
\* fails, or the number of results collected
RECURSIVE GetResultsFrom(_, _, _, _)
GetResultsFrom(self, use_grad, loader, i) ==
    IF i > Len(loader) THEN [ err |-> "ok", results |-> Len(loader) ]
    ELSE LET rs == BatchResult(self, use_grad, loader[i])
         IN  IF rs # "returned" THEN [ err |-> rs, results |-> 0 ]
             ELSE GetResultsFrom(self, use_grad, loader, i + 1)

GetResults(self, use_grad, loader) == GetResultsFrom(self, use_grad, loader, 1)

\* A faulty variant of Predict: the retry enables gradients without storing the flag.
PredictForgetful(self, loader, kwargs) ==
    LET use_grad == IF kwargs = None THEN self.use_grad_in_predict ELSE kwargs[1]
        first == GetResults(self, use_grad, loader)
        second == GetResults(self, TRUE, loader)
    IN  IF first.err = "ok"
        THEN [ self |-> self, attempts |-> << use_grad >>, err |-> "ok",
               results |-> first.results ]
        ELSE [ self |-> self, attempts |-> << use_grad, TRUE >>, err |-> second.err,
               results |-> second.results ]

\* Inference.predict (lines 261-320) up to the collected results: the
\* attempts made (the use_grad of each), the instance afterwards, and the
\* error that reaches the caller
Predict(self, loader, kwargs) ==
    LET use_grad == IF kwargs = None THEN self.use_grad_in_predict ELSE kwargs[1]
        first == GetResults(self, use_grad, loader)
        retried == [ self EXCEPT !.use_grad_in_predict = TRUE ]
        second == GetResults(retried, TRUE, loader)
    IN  IF first.err = "ok"
        THEN [ self |-> self, attempts |-> << use_grad >>, err |-> "ok",
               results |-> first.results ]
        ELSE [ self |-> retried, attempts |-> << use_grad, TRUE >>, err |-> second.err,
               results |-> second.results ]

\* the DDRLoss variables play no part in the pipeline
LossUntouched ==
    UNCHANGED << joint_training, use_anneal, enabled, training, cursor, has_last,
                 last_main, last_pressure, mtl_registered, mtl_names,
                 register_count, mtl_called, nonempty_seen, recent_main,
                 recent_pressure, bundles, lastcall, calc >>

\* ONNX(model=..., onnx_config=...); one wrapper is followed through its life
NewONNX(model, onnx_config) ==
    /\ pipeline.wrapper = None
    /\ LET o == ONNXInit(model, onnx_config)
       IN  pipeline' = [ pipeline EXCEPT
                           !.wrapper = o.self,
                           !.last = [ op |-> "ONNX.__init__", model |-> model,
                                      onnx_config |-> onnx_config,
                                      outcome |-> IF o.err = "ok" THEN "returned"
                                                  ELSE o.err ] ]
    /\ LossUntouched

\* wrapper.to_onnx(onnx_path)
CallToOnnx ==
    /\ pipeline.wrapper # None
    /\ pipeline' = [ pipeline EXCEPT
                       !.last = [ op |-> "ONNX.to_onnx",
                                  outcome |-> ToOnnx(pipeline.wrapper[1]) ] ]
    /\ LossUntouched

\* wrapper.inference(new_inputs)
CallOnnxInference(batch) ==
    /\ pipeline.wrapper # None
    /\ pipeline' = [ pipeline EXCEPT
                       !.last = [ op |-> "ONNX.inference", batch |-> batch,
                                  outcome |-> OnnxInference(pipeline.wrapper[1], batch) ] ]
    /\ LossUntouched

\* Inference(preprocessor, device, model=..., onnx_config=...); one instance
\* is followed through its life
NewInference(model, onnx_config) ==
    /\ pipeline.inference = None
    /\ LET o == InferenceInit(model, onnx_config)
       IN  pipeline' = [ pipeline EXCEPT
                           !.inference = o.self,
                           !.last = [ op |-> "Inference.__init__", model |-> model,
                                      onnx_config |-> onnx_config,
                                      outcome |-> IF o.err = "ok" THEN "returned"
                                                  ELSE o.err ] ]
    /\ LossUntouched

\* inference.predict(loader, **kwargs)
CallPredict(loader, kwargs) ==
    /\ pipeline.inference # None
    /\ \E p \in { Predict(pipeline.inference[1], loader, kwargs) } :
         pipeline' = [ pipeline EXCEPT
                         !.inference = Some(p.self),
                         !.last = [ op |-> "Inference.predict", loader |-> loader,
                                    kwargs |-> kwargs,
                                    flag0 |-> pipeline.inference[1].use_grad_in_predict,
                                    attempts |-> p.attempts,
                                    results |-> p.results,
                                    outcome |-> IF p.err = "ok" THEN "returned"
                                                ELSE p.err ] ]
    /\ LossUntouched

\* Nothing of the pipeline is constructed yet; the loss plays no part.
InitInference ==
    /\ joint_training = FALSE
    /\ use_anneal = FALSE
    /\ enabled = {}
    /\ bundles = { MedianKeys }
    /\ training = TRUE
    /\ cursor = [ t \in Terms |-> 0 ]
    /\ has_last = FALSE
    /\ last_main = None
    /\ last_pressure = None
    /\ mtl_registered = FALSE
    /\ mtl_names = << >>
    /\ register_count = 0
    /\ mtl_called = FALSE
    /\ nonempty_seen = FALSE
    /\ recent_main = None
    /\ recent_pressure = None
    /\ lastcall = FreshCall
    /\ calc = Idle
    /\ pipeline = Unbuilt

NextInference ==
    \/ \E model \in Models, onnx_config \in OnnxConfigs : NewONNX(model, onnx_config)
    \/ CallToOnnx
    \/ \E batch \in BatchKinds : CallOnnxInference(batch)
    \/ \E model \in Models, onnx_config \in OnnxConfigs : NewInference(model, onnx_config)
    \/ \E loader \in Loaders, kwargs \in UseGradKwargs : CallPredict(loader, kwargs)

SpecInference == InitInference /\ [][NextInference]_vars

----------------------------------------------------------------------------
(* Claims *)

Called == lastcall.outcome # "none"

Diagnostic == Called /\ lastcall.diag

\* a training-mode, non-diagnostic call of an instance with annealing
AnnealedTrainingCall == Called /\ use_anneal /\ lastcall.training /\ ~lastcall.diag

\* C1: a diagnostic call (check_monotonous_only=True) advances none of the
\* seven anneal step counters, in training or eval mode, and two consecutive
\* diagnostic calls work with identical anneal weights.
C1_DiagnosticKeepsCounters ==
    /\ [](Diagnostic =>
            /\ cursor = lastcall.cursor0
            /\ \A t \in Terms : lastcall.pops[t] = 0)
    /\ [][(Diagnostic /\ lastcall'.diag) => lastcall'.w = lastcall.w]_vars

\* a diagnostic call in training mode, made after a training step has popped
\* the schedules, that reuses a main weight
C1_Witness ==
    /\ Diagnostic
    /\ lastcall.training
    /\ use_anneal
    /\ lastcall.outcome = "returned"
    /\ cursor["main"] >= 1
    /\ lastcall.w["main"] # None

\* C2 (as claimed): once the aggregator is registered, the key set of every
\* loss dictionary passed to it equals the registered term-name set.
C2_AggregatorKeysAreRegisteredNames ==
    lastcall.mtl_arg # None => Range(lastcall.mtl_arg[1]) = Range(mtl_names)

\* C3 (as claimed): in a training-mode, non-diagnostic call with annealing,
\* every enabled term schedule is popped exactly once and its step counter
\* advances by exactly one.
C3_EachEnabledSchedulePoppedOnce ==
    AnnealedTrainingCall =>
        \A t \in enabled :
            /\ lastcall.pops[t] = 1
            /\ cursor[t] = lastcall.cursor0[t] + 1

\* C4 (as claimed): a diagnostic call never registers term names with the
\* MTL aggregator, whatever the bundle contains.
C4_DiagnosticNeverRegisters ==
    Diagnostic => ~lastcall.registered_now

\* C5: with annealing, the main and pressure weights a diagnostic call works
\* with are those of the most recent training-mode non-diagnostic call (the
\* latest results of lines 118 and 137), however many eval or diagnostic
\* calls came in between.
C5_DiagnosticReusesLastPopped ==
    (Diagnostic /\ use_anneal /\ lastcall.outcome # "AttributeError") =>
        /\ lastcall.w["main"] = recent_main
        /\ lastcall.w["pressure"] = recent_pressure

\* a diagnostic call in eval mode, after the schedules were popped to the cap,
\* that computed losses with both reused weights
C5_Witness ==
    /\ Diagnostic
    /\ use_anneal
    /\ ~lastcall.training
    /\ lastcall.outcome = "returned"
    /\ cursor["main"] = MaxStep
    /\ lastcall.w["main"] # None
    /\ lastcall.w["pressure"] # None

\* a non-diagnostic call under joint training whose bundle has both the CDF
\* branch and the quantile branch, and that returned a loss
JointBothBranches ==
    /\ Called
    /\ ~lastcall.diag
    /\ joint_training
    /\ "cdf_raw" \in lastcall.bundle
    /\ "quantile_residual" \in lastcall.bundle
    /\ lastcall.outcome = "returned"

SevenKeys ==
    { "median", "cdf", "quantile", "quantile_recover", "cdf_recover",
      "dual_quantile", "dual_cdf" }

\* C6 (as claimed): under joint training with both branches the dictionary
\* holds the seven keys plus only monotonicity and pressure terms (here read
\* broadly: quantile_monotonous, pdf, median_pressure_losses and
\* median_residual_losses), and no other key.
C6_ExactlySevenPlusMonotonicityPressure ==
    JointBothBranches =>
        /\ SevenKeys \subseteq Range(lastcall.keys)
        /\ Range(lastcall.keys) \subseteq
             SevenKeys \cup { "quantile_monotonous", "pdf", "median_pressure_losses",
                              "median_residual_losses" }

\* C6 (amended): the dictionary holds exactly the seven keys, the three keys
\* median_residual_losses, median_pressure_losses and quantile_monotonous,
\* cdf_anchor iff sampled_cdf_raw is in the bundle, quantile_anchor iff
\* sampled_quantile_residual is, pdf iff both pdf and sampled_pdf are; each
\* key once.
C6_JointDictionaryKeys ==
    JointBothBranches =>
        /\ Range(lastcall.keys) =
             SevenKeys
             \cup { "median_residual_losses", "median_pressure_losses",
                    "quantile_monotonous" }
             \cup (IF "sampled_cdf_raw" \in lastcall.bundle
                   THEN { "cdf_anchor" } ELSE {})
             \cup (IF "sampled_quantile_residual" \in lastcall.bundle
                   THEN { "quantile_anchor" } ELSE {})
             \cup (IF { "pdf", "sampled_pdf" } \subseteq lastcall.bundle
                   THEN { "pdf" } ELSE {})
        /\ Cardinality(Range(lastcall.keys)) = Len(lastcall.keys)

\* a joint call on the complete bundle: both anchor keys and pdf are there
C6_Witness ==
    /\ JointBothBranches
    /\ lastcall.bundle = Keys
    /\ Len(lastcall.keys) = 13

\* C7: whenever the assembled dictionary is empty the call does not raise,
\* neither registers with nor calls the aggregator, and returns a zero loss
\* of shape (rows of target, 1) with a dictionary holding it under "loss".
C7_EmptyDictionaryGivesZero ==
    (Called /\ lastcall.assembled /\ lastcall.keys = << >>) =>
        /\ lastcall.outcome = "zero"
        /\ ~lastcall.registered_now
        /\ lastcall.mtl_arg = None
        /\ lastcall.ret_loss = Some([ rows |-> lastcall.rows, cols |-> 1, val |-> 0 ])
        /\ lastcall.ret_keys = << "loss" >>

\* an empty dictionary on a target of more than one row, aggregator untouched
C7_Witness ==
    /\ Called
    /\ lastcall.assembled
    /\ lastcall.keys = << >>
    /\ lastcall.rows >= 2
    /\ ~mtl_registered

\* C8 (as claimed): a call on the empty bundle (even the median omitted)
\* returns a zero tensor of shape (batch, 1) without raising.
C8_EmptyBundleGivesZero ==
    (Called /\ lastcall.bundle = {}) =>
        /\ lastcall.outcome = "zero"
        /\ lastcall.ret_loss = Some([ rows |-> lastcall.rows, cols |-> 1, val |-> 0 ])

\* C9: register is invoked at most once in the life of the instance: on the
\* first call that assembles a non-empty dictionary and never on a call whose
\* dictionary is empty, and the aggregator is not called before it.
C9_RegisterOnceOnFirstNonEmpty ==
    /\ register_count <= 1
    /\ (register_count = 1) = nonempty_seen
    /\ (register_count = 1) = mtl_registered
    /\ mtl_called => register_count = 1
    /\ lastcall.registered_now => (lastcall.assembled /\ lastcall.keys # << >>)
    /\ lastcall.registered_now => mtl_names = lastcall.keys

\* a later non-empty call on a registered aggregator: it did not register again
C9_Witness ==
    /\ Called
    /\ lastcall.mtl_arg # None
    /\ ~lastcall.registered_now
    /\ register_count = 1
    /\ lastcall.keys # mtl_names

\* the dual tensors a joint call with both branches needs
DualMissing(b) ==
    /\ joint_training
    /\ "cdf_raw" \in b
    /\ "quantile_residual" \in b
    /\ ~(DualKeys \subseteq b)

\* the primary tensors without a companion
PrimaryCompanionMissing(b) ==
    \/ "cdf_raw" \in b /\ "anchor_batch" \notin b
    \/ /\ "quantile_residual" \in b
       /\ ~({ "quantile_sign", "quantile_batch", "median_residual" } \subseteq b)

\* C10 (as claimed): a non-diagnostic call whose bundle carries a tensor
\* without its required companion (cdf_raw without anchor_batch;
\* quantile_residual without quantile_sign, quantile_batch or median_residual;
\* a sampled variant without its sampled anchors / quantiles; under joint
\* training with both branches, a missing dual tensor) ends in an assertion
\* failure.
C10_MissingCompanionAsserts ==
    (/\ Called
     /\ ~lastcall.diag
     /\ \/ PrimaryCompanionMissing(lastcall.bundle)
        \/ "sampled_cdf_raw" \in lastcall.bundle /\ "sampled_anchors" \notin lastcall.bundle
        \/ /\ "sampled_quantile_residual" \in lastcall.bundle
           /\ "sampled_quantiles" \notin lastcall.bundle
        \/ DualMissing(lastcall.bundle))
    => lastcall.outcome = "AssertionError"

\* the companions the code requires: a sampled variant needs its companion
\* only when its primary tensor (cdf_raw, quantile_residual) is in the bundle
RequiredCompanionMissing(b) ==
    \/ PrimaryCompanionMissing(b)
    \/ /\ "cdf_raw" \in b
       /\ "sampled_cdf_raw" \in b
       /\ "sampled_anchors" \notin b
    \/ /\ "quantile_residual" \in b
       /\ "sampled_quantile_residual" \in b
       /\ "sampled_quantiles" \notin b
    \/ DualMissing(b)

\* C10 (amended): such a call never returns a loss: it raises, and what it
\* raises is an AssertionError whenever the bundle holds predictions,
\* median_detach, pp_dict and pn_dict and the call pops no schedule.
C10_RequiredCompanionRaises ==
    (Called /\ ~lastcall.diag /\ RequiredCompanionMissing(lastcall.bundle)) =>
        /\ lastcall.outcome \in { "AssertionError", "KeyError", "AttributeError", "TypeError" }
        /\ ~lastcall.assembled
        /\ lastcall.ret_loss = None
        /\ lastcall.mtl_arg = None
        /\ (/\ { "predictions", "median_detach", "pp_dict", "pn_dict" } \subseteq lastcall.bundle
            /\ ~(use_anneal /\ lastcall.training))
           => lastcall.outcome = "AssertionError"

\* a call with cdf_raw but no anchor_batch, ended by the assertion
C10_Witness ==
    /\ Called
    /\ ~lastcall.diag
    /\ "cdf_raw" \in lastcall.bundle
    /\ "anchor_batch" \notin lastcall.bundle
    /\ "predictions" \in lastcall.bundle
    /\ lastcall.outcome = "AssertionError"

\* a bundle the loss accepts: the median, and every tensor the branches it
\* carries need
CompleteBundle(b) ==
    /\ "predictions" \in b
    /\ ~RequiredCompanionMissing(b)
    /\ "quantile_residual" \in b => { "median_detach", "pp_dict", "pn_dict" } \subseteq b

\* C11 (as claimed): whatever subset of the seven term schedules is disabled,
\* a training-mode non-diagnostic call on a complete bundle returns a loss,
\* pops every enabled schedule once and works with its weight, and has no
\* weight for (and so does not scale by) any disabled term.
C11_SchedulesDisabledIndependently ==
    (AnnealedTrainingCall /\ CompleteBundle(lastcall.bundle)) =>
        /\ lastcall.outcome = "returned"
        /\ \A t \in enabled : lastcall.pops[t] = 1 /\ lastcall.w[t] # None
        /\ \A t \in Terms \ enabled : lastcall.w[t] = None
        /\ \A n \in LossNames : lastcall.scale[n] \subseteq enabled

\* the sum over the rows of a batch of |median - target|
RECURSIVE AbsErrorSum(_, _, _)
AbsErrorSum(m, t, i) ==
    IF i = 0 THEN 0
    ELSE (IF m[i] >= t[i] THEN m[i] - t[i] ELSE t[i] - m[i]) + AbsErrorSum(m, t, i - 1)

\* forward has run on the batch of calc
ForwardApplied == calc.op = "forward" /\ calc.out # None

\* C12: for a median-only bundle in a non-diagnostic call with annealing
\* disabled, forward returns; the dictionary has the single key median, which
\* is also the one registered term; the median loss is |median - target| row
\* by row (in hundredths: ten times the difference in tenths); the reduced
\* loss and the reduced dictionary entry are the mean absolute error.
C12_MedianOnlyIsMeanAbsoluteError ==
    (ForwardApplied /\ ~calc.diag /\ ~use_anneal) =>
        LET o == calc.out[1]
            n == Len(calc.target)
            mae == [ num |-> 10 * AbsErrorSum(calc.median, calc.target, n), den |-> n ]
        IN  /\ o.outcome = "returned"
            /\ o.keys = << "median" >>
            /\ mtl_names = << "median" >>
            /\ \A i \in 1..n :
                 \/ o.median_losses[i] = 10 * (calc.median[i] - calc.target[i])
                      /\ calc.median[i] >= calc.target[i]
                 \/ o.median_losses[i] = 10 * (calc.target[i] - calc.median[i])
                      /\ calc.median[i] <= calc.target[i]
            /\ o.reduced_losses = mae
            /\ o.reduced_losses_dict = << mae >>

\* the scenario: target 1.0, median 0.7, loss 0.3 (30 hundredths)
C12_Witness ==
    /\ ForwardApplied
    /\ ~calc.diag
    /\ ~use_anneal
    /\ calc.median = << Scenario[1] >>
    /\ calc.target = << Scenario[2] >>
    /\ calc.out[1].median_losses = << 30 >>
    /\ calc.out[1].reduced_losses = [ num |-> 30, den |-> 1 ]

\* the quantile loss of an entry has been computed
QuantileApplied == calc.op = "quantile" /\ calc.out # None

\* C14: the quantile (pinball) loss max(q*e, (q-1)*e), with e the target
\* residual minus the predicted quantile residual, is non-negative for every
\* level q strictly between 0 and 1 and every e, and is zero exactly when e = 0.
C14_PinballNonNegative ==
    QuantileApplied =>
        /\ calc.out[1] >= 0
        /\ (calc.out[1] = 0) <=> (calc.target_residual = calc.quantile_residual)

\* an over-prediction (e < 0) at a level above one half, with a positive loss
C14_Witness ==
    /\ QuantileApplied
    /\ calc.target_residual < calc.quantile_residual
    /\ calc.quantile_batch > 5
    /\ calc.out[1] > 0

\* a diagnostic call whose bundle has the quantile outputs
DiagnosticWithQuantile == Diagnostic /\ "quantile_residual" \in lastcall.bundle

\* C16 (as claimed): in a diagnostic call with quantile outputs present, none
\* of the median-residual loss, the quantile loss and the median-pressure
\* loss is computed, and none of them is in the dictionary under any key.
C16_DiagnosticSkipsQuantileTerms ==
    (DiagnosticWithQuantile /\ lastcall.assembled) =>
        /\ ~lastcall.computed.median_residual_losses
        /\ ~lastcall.computed.quantile_losses
        /\ ~lastcall.computed.median_pressure_losses
        /\ Range(lastcall.keys) \cap
             { "median_residual_losses", "quantile", "quantile_anchor",
               "median_pressure_losses", "synthetic_median_pressure_losses" } = {}

\* C16 (amended): in such a call neither the median-residual loss nor the
\* quantile loss (nor its anchor variant) is computed or is in the
\* dictionary; when the call returns, the median-pressure loss has been
\* computed, multiplied by the stored pressure weight when there is one, and
\* is in the dictionary under synthetic_median_pressure_losses only.
C16_DiagnosticKeepsPressureOnly ==
    DiagnosticWithQuantile =>
        /\ ~lastcall.computed.median_residual_losses
        /\ ~lastcall.computed.quantile_losses
        /\ ~lastcall.computed.quantile_anchor_losses
        /\ Range(lastcall.keys) \cap
             { "median_residual_losses", "quantile", "quantile_anchor",
               "median_pressure_losses" } = {}
        /\ lastcall.assembled =>
             /\ lastcall.outcome = "returned"
             /\ lastcall.computed.median_pressure_losses
             /\ "synthetic_median_pressure_losses" \in Range(lastcall.keys)
             /\ lastcall.scale["median_pressure_losses"] =
                  (IF lastcall.w["pressure"] = None THEN {} ELSE { "pressure" })
             /\ lastcall.w["pressure"] = last_pressure

\* a diagnostic call on the complete bundle after a training step: the
\* pressure loss is there, scaled by the stored pressure weight
C16_Witness ==
    /\ DiagnosticWithQuantile
    /\ lastcall.bundle = Keys
    /\ lastcall.outcome = "returned"
    /\ lastcall.w["pressure"] # None
    /\ lastcall.keys[1] = "synthetic_median_pressure_losses"

\* the keys a loss dictionary can hold, by mode
PlainKeys ==
    SevenKeys \cup { "cdf_anchor", "quantile_anchor", "median_residual_losses",
                     "median_pressure_losses", "pdf", "quantile_monotonous" }

SyntheticKeys == { "synthetic_" \o k : k \in PlainKeys }

\* the bundle has what a monotonicity penalty is computed from
MonotonicitySignals(b) ==
    \/ { "quantile_residual_gradient", "sampled_qr_gradient" } \subseteq b
    \/ { "median_residual", "quantile_sign" } \subseteq b

\* C17: every key of a dictionary assembled by a diagnostic call starts with
\* "synthetic_", no key of one assembled by a non-diagnostic call does, and
\* in either mode the monotonicity penalty is in the dictionary whenever the
\* bundle has both gradient estimates or both median_residual and
\* quantile_sign.
C17_SyntheticPrefixByMode ==
    (Called /\ lastcall.assembled) =>
        /\ lastcall.diag => Range(lastcall.keys) \subseteq SyntheticKeys
        /\ ~lastcall.diag => Range(lastcall.keys) \subseteq PlainKeys
        /\ MonotonicitySignals(lastcall.bundle) =>
             (IF lastcall.diag THEN "synthetic_quantile_monotonous"
              ELSE "quantile_monotonous") \in Range(lastcall.keys)

\* a diagnostic call on the complete bundle: three keys, all prefixed
C17_Witness ==
    /\ Diagnostic
    /\ lastcall.bundle = Keys
    /\ lastcall.keys = << "synthetic_median_pressure_losses", "synthetic_pdf",
                          "synthetic_quantile_monotonous" >>

\* C18: with joint training off, a non-diagnostic dictionary holds none of
\* cdf, quantile, quantile_recover, cdf_recover, dual_quantile, dual_cdf; it
\* holds cdf_anchor iff cdf_raw and sampled_cdf_raw are in the bundle, and
\* quantile_anchor iff quantile_residual and sampled_quantile_residual are.
C18_JointOffKeepsAnchorsOnly ==
    (Called /\ lastcall.assembled /\ ~lastcall.diag /\ ~joint_training) =>
        /\ Range(lastcall.keys) \cap
             { "cdf", "quantile", "quantile_recover", "cdf_recover",
               "dual_quantile", "dual_cdf" } = {}
        /\ ("cdf_anchor" \in Range(lastcall.keys))
             <=> ({ "cdf_raw", "sampled_cdf_raw" } \subseteq lastcall.bundle)
        /\ ("quantile_anchor" \in Range(lastcall.keys))
             <=> ({ "quantile_residual", "sampled_quantile_residual" }
                    \subseteq lastcall.bundle)

\* joint training off, the complete bundle: both anchor keys after median
C18_Witness ==
    /\ Called
    /\ ~lastcall.diag
    /\ ~joint_training
    /\ lastcall.bundle = Keys
    /\ lastcall.outcome = "returned"
    /\ SubSeq(lastcall.keys, 1, 3) = << "median", "cdf_anchor", "quantile_anchor" >>

\* a non-diagnostic call made in eval mode or on an instance without annealing
UnannealedCall == Called /\ ~lastcall.diag /\ (~lastcall.training \/ ~use_anneal)

\* C19: a non-diagnostic call in eval mode, or with annealing disabled, pops
\* no schedule, advances no step counter, works without any anneal weight
\* and scales no loss; the step that makes it leaves the stored last-popped
\* main and pressure values as they were.
C19_UnannealedCallTouchesNoSchedule ==
    /\ [](UnannealedCall =>
            /\ \A t \in Terms : lastcall.pops[t] = 0
            /\ cursor = lastcall.cursor0
            /\ lastcall.w = NoWeights
            /\ \A n \in LossNames : lastcall.scale[n] = {})
    /\ [][(~lastcall'.diag /\ (~lastcall'.training \/ ~use_anneal)) =>
            /\ has_last' = has_last
            /\ last_main' = last_main
            /\ last_pressure' = last_pressure]_vars

\* an eval-mode call on the complete bundle, after training steps have moved
\* the counters and stored the last-popped values
C19_Witness ==
    /\ UnannealedCall
    /\ use_anneal
    /\ has_last
    /\ last_main # None
    /\ cursor["main"] >= 1
    /\ lastcall.bundle = Keys
    /\ lastcall.outcome = "returned"

\* C20 (as claimed): the PDF loss is multiplied by the monotonous anneal
\* weight exactly when the call has an anchor weight, and is left unscaled
\* when it has none.
C20_PdfScaledByMonotonousIffAnchor ==
    (/\ Called
     /\ { "pdf", "sampled_pdf" } \subseteq lastcall.bundle
     /\ lastcall.outcome \in { "returned", "TypeError" }) =>
        /\ lastcall.w["anchor"] # None =>
             /\ lastcall.outcome = "returned"
             /\ lastcall.w["monotonous"] # None
             /\ lastcall.scale["pdf_losses"] = { "monotonous" }
        /\ lastcall.w["anchor"] = None => lastcall.scale["pdf_losses"] = {}

\* C22 (as claimed): with annealing enabled a diagnostic call always finds
\* stored last-popped main and pressure values: it never fails to read them,
\* even as the first call on a fresh instance.
C22_DiagnosticFindsStoredValues ==
    (Diagnostic /\ use_anneal) =>
        /\ has_last
        /\ lastcall.outcome # "AttributeError"

\* the exceptions of a companion-key assertion or a missing bundle key
BundleErrors == { "AssertionError", "KeyError" }

\* C23 (as claimed): a call that fails on a companion-key assertion or on a
\* missing bundle key has advanced no anneal step counter and registered no
\* term names.
C23_FailedCallLeavesStateUnchanged ==
    (Called /\ lastcall.outcome \in BundleErrors) =>
        /\ cursor = lastcall.cursor0
        /\ \A t \in Terms : lastcall.pops[t] = 0
        /\ ~lastcall.registered_now

\* the bundle gives a diagnostic call nothing to penalise
NothingDiagnosable(b) ==
    /\ "quantile_residual" \notin b
    /\ ~({ "pdf", "sampled_pdf" } \subseteq b)
    /\ ~({ "quantile_residual_gradient", "sampled_qr_gradient" } \subseteq b)
    /\ ~({ "median_residual", "quantile_sign" } \subseteq b)

\* C24: every dictionary assembled by a non-diagnostic call has the key
\* median (and so is passed to the aggregator), and the zero-loss fallback is
\* taken only by a diagnostic call whose bundle has no quantile_residual,
\* lacks one of pdf / sampled_pdf, lacks one of the two gradient estimates
\* and lacks one of median_residual / quantile_sign.
C24_ZeroFallbackOnlyFromDiagnostic ==
    /\ (Called /\ lastcall.assembled /\ ~lastcall.diag) =>
          /\ lastcall.keys # << >>
          /\ lastcall.keys[1] = "median"
          /\ lastcall.outcome = "returned"
    /\ (Called /\ lastcall.outcome = "zero") =>
          /\ lastcall.diag
          /\ NothingDiagnosable(lastcall.bundle)

\* a diagnostic call on a bundle with the median and the CDF branch only:
\* nothing to penalise, the zero loss is returned
C24_Witness ==
    /\ Diagnostic
    /\ lastcall.outcome = "zero"
    /\ { "predictions", "cdf_raw", "anchor_batch" } \subseteq lastcall.bundle
    /\ lastcall.ret_keys = << "loss" >>

\* a half of the dual block has been computed with dynamic weighting off
StaticDualQuantile ==
    calc.op = "dual_quantile" /\ calc.out # None /\ ~calc.use_dynamic_weights

StaticDualCdf ==
    calc.op = "dual_cdf" /\ calc.out # None /\ ~calc.use_dynamic_weights

\* C21: with dynamic weighting disabled every recovery and dual loss has
\* weight 1.0: quantile_recover is |anchor_batch - dual_quantile|, cdf_recover
\* is |quantile_batch - dual_cdf|, the dual CDF-scoring loss is the score
\* itself and the dual pinball loss enters dual_cdf unweighted (with the
\* median-residual loss added to it).  Fractions are compared crosswise;
\* values are in tenths, the pinball loss in hundredths.
C21_StaticWeightsAreOne ==
    /\ StaticDualQuantile =>
         LET o == calc.out[1]
             d == calc.anchor_batch - calc.dual_quantile
         IN  /\ o.quantile_recover_losses # None
             /\ o.quantile_recover_losses[1].num * 10 =
                  (IF d < 0 THEN -d ELSE d) * o.quantile_recover_losses[1].den
             /\ (o.dual_quantile_losses = None) = (calc.cdf_score = None)
             /\ o.dual_quantile_losses # None =>
                  o.dual_quantile_losses[1].num * 10 =
                    calc.cdf_score[1] * o.dual_quantile_losses[1].den
    /\ StaticDualCdf =>
         LET o == calc.out[1]
             d == calc.quantile_batch - calc.dual_cdf
         IN  /\ o.cdf_recover_losses # None
             /\ o.cdf_recover_losses[1].num * 10 =
                  (IF d < 0 THEN -d ELSE d) * o.cdf_recover_losses[1].den
             /\ (o.dual_cdf_losses = None) = (calc.cdf_quantile_residual = None)
             /\ o.dual_cdf_losses # None =>
                  LET e == calc.target - calc.cdf_quantile_residual[1]
                      pinball == IF e >= 0 THEN calc.quantile_batch * e
                                 ELSE (calc.quantile_batch - 10) * e
                  IN  o.dual_cdf_losses[1].num * 100 =
                        (pinball + 10 * calc.median_residual_losses)
                          * o.dual_cdf_losses[1].den

\* the second half with every value positive: a dynamic weight would differ
\* from 1.0 here
C21_Witness ==
    /\ StaticDualCdf
    /\ calc.quantile_losses > 0
    /\ calc.dual_cdf # calc.quantile_batch
    /\ calc.cdf_quantile_residual # None
    /\ calc.target > calc.cdf_quantile_residual[1]
    /\ calc.median_residual_losses > 0
    /\ calc.out[1].cdf_recover_losses # None
    /\ calc.out[1].dual_cdf_losses # None

\* the latest call on the pipeline is inference.predict
PredictCalled == pipeline.last.op = "Inference.predict"

\* the batches of the latest predict call that raise whatever the mode
AlwaysRaising ==
    { i \in 1..Len(pipeline.last.loader) : pipeline.last.loader[i] = "raises" }

\* the batches of the latest predict call on which its first attempt fails
FirstAttemptFailing ==
    AlwaysRaising \cup
    { i \in 1..Len(pipeline.last.loader) :
        /\ pipeline.inference[1].onnx = None
        /\ pipeline.last.loader[i] = "needs_grad"
        /\ ~pipeline.last.attempts[1] }

\* C25: Inference.predict makes its first attempt with the use_grad given, or
\* with the instance's flag when none is given; a failed first attempt is
\* retried exactly once with gradients enabled and leaves the flag True; the
\* flag never returns to False, so a later call without use_grad starts with
\* gradients; the caller sees an error exactly when the retry fails.
C25_RetriesOnceAndSticks ==
    /\ [](PredictCalled =>
            LET l == pipeline.last
                self == pipeline.inference[1]
            IN  /\ l.attempts[1] = (IF l.kwargs = None THEN l.flag0 ELSE l.kwargs[1])
                /\ Len(l.attempts) = (IF FirstAttemptFailing = {} THEN 1 ELSE 2)
                /\ Len(l.attempts) = 2 =>
                     /\ l.attempts[2] = TRUE
                     /\ self.use_grad_in_predict = TRUE
                /\ (l.flag0 /\ l.kwargs = None) => l.attempts[1] = TRUE
                /\ (l.outcome # "returned") =
                     (Len(l.attempts) = 2 /\ AlwaysRaising # {}))
    /\ [][(pipeline.inference # None /\ pipeline.inference[1].use_grad_in_predict)
            => pipeline'.inference[1].use_grad_in_predict]_vars

\* a call without use_grad on a model that needs gradients, made after an
\* earlier call had failed its first attempt: one attempt, with gradients
C25_Witness ==
    /\ PredictCalled
    /\ pipeline.last.kwargs = None
    /\ pipeline.last.flag0 = TRUE
    /\ pipeline.inference[1].model # None
    /\ \E i \in 1..Len(pipeline.last.loader) : pipeline.last.loader[i] = "needs_grad"
    /\ pipeline.last.attempts = << TRUE >>
    /\ pipeline.last.outcome = "returned"

\* the backends of an Inference / of an ONNX wrapper
InferenceBackends(self) ==
    { x \in { "onnx", "model" } :
        \/ x = "onnx" /\ self.onnx # None /\ self.onnx[1].ort_session # None
        \/ x = "model" /\ self.model # None }

WrapperBackends(self) ==
    { x \in { "onnx", "model" } :
        \/ x = "onnx" /\ self.ort_session # None
        \/ x = "model" /\ self.model # None }

\* C26: a constructor given neither a model nor an onnx_config raises
\* ValueError; an instance has exactly one backend, the session when an
\* onnx_config was given (a supplied model is dropped) and the model
\* otherwise, and keeps it for life; ONNX.inference raises ValueError on a
\* model-built wrapper and ONNX.to_onnx on a config-built one.
C26_ExactlyOneBackend ==
    /\ [](pipeline.last.op = "Inference.__init__" =>
            LET l == pipeline.last
            IN  /\ (l.outcome = "ValueError") = (l.model = None /\ l.onnx_config = None)
                /\ (l.outcome = "returned") = (pipeline.inference # None)
                /\ pipeline.inference # None =>
                     IF l.onnx_config # None
                     THEN /\ InferenceBackends(pipeline.inference[1]) = { "onnx" }
                          /\ pipeline.inference[1].model = None
                     ELSE /\ InferenceBackends(pipeline.inference[1]) = { "model" }
                          /\ pipeline.inference[1].onnx = None
                          /\ pipeline.inference[1].model = l.model)
    /\ [](pipeline.last.op = "ONNX.__init__" =>
            LET l == pipeline.last
            IN  /\ (l.outcome = "ValueError") = (l.model = None /\ l.onnx_config = None)
                /\ (l.outcome = "returned") = (pipeline.wrapper # None)
                /\ pipeline.wrapper # None =>
                     WrapperBackends(pipeline.wrapper[1]) =
                       (IF l.onnx_config # None THEN { "onnx" } ELSE { "model" }))
    /\ [](pipeline.inference # None =>
            Cardinality(InferenceBackends(pipeline.inference[1])) = 1)
    /\ [](pipeline.wrapper # None =>
            Cardinality(WrapperBackends(pipeline.wrapper[1])) = 1)
    /\ [][pipeline.inference # None =>
            /\ pipeline'.inference # None
            /\ pipeline'.inference[1].onnx = pipeline.inference[1].onnx
            /\ pipeline'.inference[1].model = pipeline.inference[1].model]_vars
    /\ [][pipeline.wrapper # None => pipeline'.wrapper = pipeline.wrapper]_vars
    /\ [](pipeline.last.op = "ONNX.inference" =>
            (pipeline.last.outcome = "ValueError") =
              (WrapperBackends(pipeline.wrapper[1]) = { "model" }))
    /\ [](pipeline.last.op = "ONNX.to_onnx" =>
            (pipeline.last.outcome = "ValueError") =
              (WrapperBackends(pipeline.wrapper[1]) = { "onnx" }))

\* an Inference constructed with both a model and an onnx_config
C26_Witness ==
    /\ pipeline.last.op = "Inference.__init__"
    /\ pipeline.last.model # None
    /\ pipeline.last.onnx_config # None
    /\ pipeline.last.outcome = "returned"
    /\ pipeline.inference # None
    /\ pipeline.inference[1].model = None

====
